---- MODULE Spec2Model ----
(***************************************************************************)
(* The CSP solver of oving3/solution.py: the constraint graph, AC-3        *)
(* (inference / revise), the MRV variable selection and the backtracking   *)
(* search with its per-branch deep copies and its two counters.            *)
(*                                                                         *)
(* Python objects are modelled with reference semantics: an assignment     *)
(* (a dict of lists) is an entry of `heap`, and a call frame holds the     *)
(* index of the assignment it was called with.  copy.deepcopy allocates a  *)
(* new entry.  Exceptions (ValueError of min([]), KeyError of a missing    *)
(* constraint) end the run in pc = "raised".                               *)
(***************************************************************************)
EXTENDS Integers, Sequences, FiniteSets, TLC

\* Size of the palette the builders draw domains from (values 1..MaxVal).
MaxVal == 3

\* The names the builders give to add_variable, in the order they add them.
Names == <<"A", "B", "C", "D">>

\* None, as returned by backtrack.
None == 0

VARIABLES
    variables,                  \* self.variables
    domains,                    \* self.domains
    constraints,                \* self.constraints, each inner dict in insertion order
    backtrack_counter,          \* self.backtrack_counter
    backtrack_failure_counter,  \* self.backtrack_failure_counter
    heap,                       \* the assignment objects alive in the search
    stack,                      \* the backtrack calls that are inside their for-loop
    queue,                      \* the queue of the running inference call
    target,                     \* the assignment the running inference / next backtrack call works on
    pc,                         \* position of the program
    retval,                     \* value being returned by backtrack (None or an assignment reference)
    exc,                        \* the exception that ended the run, if any
    initial_ok,                 \* what the initial inference call returned (the code discards it)
    lastRevise                  \* the last revise call: its arguments and its result

vars == <<variables, domains, constraints, backtrack_counter, backtrack_failure_counter,
          heap, stack, queue, target, pc, retval, exc, initial_ok, lastRevise>>

graph == <<variables, domains, constraints>>

-----------------------------------------------------------------------------
(* Helpers on sequences *)

Range(s) == {s[n] : n \in 1..Len(s)}

IndexOf(s, x) == CHOOSE n \in 1..Len(s) : s[n] = x /\ \A m \in 1..(n - 1) : s[m] # x

\* list.remove(x): drop the first occurrence of x
ListRemove(s, x) ==
    LET k == IndexOf(s, x)
    IN  [n \in 1..(Len(s) - 1) |-> IF n < k THEN s[n] ELSE s[n + 1]]

\* list(range(lo, hi + 1))
Interval(lo, hi) == [n \in 1..(hi - lo + 1) |-> lo + n - 1]

-----------------------------------------------------------------------------
(* The constraint graph *)

\* The constraint functions the builders register: lambda x, y: x != y, and the
\* two orientations of an order constraint.
Satisfies(fn, x, y) ==
    CASE fn = "neq" -> x # y
      [] fn = "lt"  -> x < y
      [] fn = "gt"  -> x > y

\* The unordered pairs of distinct variables of vs, earlier registered first.
Pairs(vs) == {p \in Range(vs) \X Range(vs) : IndexOf(vs, p[1]) < IndexOf(vs, p[2])}

\* What a builder does with a pair: nothing, a constraint in both directions
\* (x != y, or x < y with its converse), or add_constraint_one_way once.
EdgeKinds == {"none", "neq", "lt", "oneway"}

\* The function registered for i -> j, "absent" if there is none.
ArcFn(kinds, i, j) ==
    IF IndexOf(Names, i) < IndexOf(Names, j)
    THEN CASE kinds[<<i, j>>] = "neq"    -> "neq"
           [] kinds[<<i, j>>] = "lt"     -> "lt"
           [] kinds[<<i, j>>] = "oneway" -> "neq"
           [] OTHER                      -> "absent"
    ELSE CASE kinds[<<j, i>>] = "neq"    -> "neq"
           [] kinds[<<j, i>>] = "lt"     -> "gt"
           [] OTHER                      -> "absent"

\* self.constraints[i] after the builder ran: the entries in insertion order.
Outgoing(vs, kinds, i) ==
    LET js == SelectSeq(vs, LAMBDA j : j # i /\ ArcFn(kinds, i, j) # "absent")
    IN  [n \in 1..Len(js) |-> [to |-> js[n], fn |-> ArcFn(kinds, i, js[n])]]

\* j in self.constraints[i]
HasConstraint(i, j) == \E n \in 1..Len(constraints[i]) : constraints[i][n].to = j

\* self.constraints[i][j]; "missing" stands for the KeyError of the lookup
ConstraintFn(i, j) ==
    IF HasConstraint(i, j)
    THEN constraints[i][CHOOSE n \in 1..Len(constraints[i]) : constraints[i][n].to = j].fn
    ELSE "missing"

\* [(i, j) for j in self.constraints[i]]
ArcsFrom(i) == [n \in 1..Len(constraints[i]) |-> <<i, constraints[i][n].to>>]

RECURSIVE ArcsFromAll(_)
ArcsFromAll(n) ==
    IF n > Len(variables) THEN <<>> ELSE ArcsFrom(variables[n]) \o ArcsFromAll(n + 1)

get_all_arcs == ArcsFromAll(1)

get_all_neighboring_arcs(var) ==
    [n \in 1..Len(constraints[var]) |-> <<constraints[var][n].to, var>>]

-----------------------------------------------------------------------------
(* AC-3 *)

\* The test of revise with any() for all(): x is dropped as soon as one value
\* of j's domain is incompatible with it.
UnsupportedAny(fn, x, dj) == \E n \in 1..Len(dj) : ~Satisfies(fn, x, dj[n])

\* all(not self.constraints[i][j](x, y) for y in assignment[j])
Unsupported(fn, x, dj) == \A n \in 1..Len(dj) : ~Satisfies(fn, x, dj[n])

\* The for-loop of revise.  The list iterator keeps an index into the list that
\* the loop body shrinks: after a removal the element that slid into the
\* current position is not visited.
RECURSIVE ReviseLoop(_, _, _, _, _)
ReviseLoop(di, dj, fn, idx, revised) ==
    IF idx > Len(di)
    THEN [dom |-> di, revised |-> revised]
    ELSE IF Unsupported(fn, di[idx], dj)
         THEN ReviseLoop(ListRemove(di, di[idx]), dj, fn, idx + 1, TRUE)
         ELSE ReviseLoop(di, dj, fn, idx + 1, revised)

\* revise evaluates self.constraints[i][j] inside the two loops, once for each
\* pair (x, y) it tests: with an empty domain on either side it never does.
LooksUpConstraint(a, i, j) == a[i] # <<>> /\ a[j] # <<>>

\* revise(assignment, i, j), when its lookups of self.constraints[i][j] succeed
revise(a, i, j) ==
    LET r == ReviseLoop(a[i], a[j], ConstraintFn(i, j), 1, FALSE)
    IN  [assignment |-> [a EXCEPT ![i] = r.dom], revised |-> r.revised]

\* the arcs inference appends after revising i through (i, j)
Requeue(i, j) == SelectSeq(get_all_neighboring_arcs(i), LAMBDA k : k[1] # j)

-----------------------------------------------------------------------------
(* Backtracking search *)

\* all(len(assignment[var]) == 1 for var in self.variables)
IsComplete(a) == \A n \in 1..Len(variables) : Len(a[variables[n]]) = 1

\* [var for var in self.variables if len(assignment[var]) > 1]
UnassignedVars(a) == SelectSeq(variables, LAMBDA v : Len(a[v]) > 1)

\* A minimum search that also replaces the best on an equal key: the last of
\* the smallest, not the first.
RECURSIVE MinScanLast(_, _, _, _)
MinScanLast(u, a, n, best) ==
    IF n > Len(u)
    THEN best
    ELSE MinScanLast(u, a, n + 1, IF Len(a[u[n]]) <= Len(a[best]) THEN u[n] ELSE best)

\* min(u, key=...): scan left to right, replace the best only by a strictly smaller key
RECURSIVE MinScan(_, _, _, _)
MinScan(u, a, n, best) ==
    IF n > Len(u)
    THEN best
    ELSE MinScan(u, a, n + 1, IF Len(a[u[n]]) < Len(a[best]) THEN u[n] ELSE best)

\* select_unassigned_variable(assignment), when some variable is unassigned
select_unassigned_variable(a) ==
    LET u == UnassignedVars(a) IN MinScan(u, a, 2, u[1])

\* new_assignment = assignment, without the copy: the same object
AliasCopy(h, r) == [heap |-> h, ref |-> r]

\* copy.deepcopy(assignment): a new object with the same contents
DeepCopy(h, r) == [heap |-> Append(h, h[r]), ref |-> Len(h) + 1]

\* The collapse written to the wrong key: the first variable, not var
CollapseWrongKey(a, var, value) == [a EXCEPT ![variables[1]] = <<value>>]

\* new_assignment[var] = [value]
Collapse(a, var, value) == [a EXCEPT ![var] = <<value>>]

\* The failure counter with its increment left out
CountFailureForgotten(n) == n

\* self.backtrack_counter += 1
CountInvocation(n) == n + 1

\* self.backtrack_failure_counter += 1
CountFailure(n) == n + 1

-----------------------------------------------------------------------------
(* The program *)

NoRevise == [valid |-> FALSE, i |-> "", j |-> "", fn |-> "", di |-> <<>>, dj |-> <<>>,
             dom |-> <<>>, revised |-> FALSE]

\* The domains a builder hands to add_variable: a non-empty run of the palette
\* (the whole palette, or a pre-filled single value, or a part of it).
InitialDomains == {Interval(lo, hi) : lo \in 1..MaxVal, hi \in 1..MaxVal} \ {<<>>}

\* The domains of a colouring instance: the palette, or the palette without
\* one of its end colours.
ColouringDomains == {d \in InitialDomains : Len(d) >= MaxVal - 1}

\* A graph of three variables: any domains, any kind of edge on each pair.
SmallGraph ==
    /\ variables = SubSeq(Names, 1, 3)
    /\ domains \in [Range(variables) -> InitialDomains]
    /\ \E kinds \in [Pairs(variables) -> EdgeKinds] :
            constraints = [i \in Range(variables) |-> Outgoing(variables, kinds, i)]

\* A colouring instance of four regions: x != y in both directions on any set
\* of adjacent pairs.
ColouringGraph ==
    /\ variables = Names
    /\ domains \in [Range(variables) -> ColouringDomains]
    /\ \E kinds \in [Pairs(variables) -> {"none", "neq"}] :
            constraints = [i \in Range(variables) |-> Outgoing(variables, kinds, i)]

\* The first colours of the palette.
PaletteDomains == {Interval(1, hi) : hi \in 1..MaxVal}

\* A map of three regions: each with the first colours of the palette, and on
\* each pair no adjacency, x != y in both directions, or x != y added in one
\* direction only.
MapGraph ==
    /\ variables = SubSeq(Names, 1, 3)
    /\ domains \in [Range(variables) -> PaletteDomains]
    /\ \E kinds \in [Pairs(variables) -> {"none", "neq", "oneway"}] :
            constraints = [i \in Range(variables) |-> Outgoing(variables, kinds, i)]

\* CSP.__init__ for the counters, and the solver not yet called.
NotStarted ==
    /\ backtrack_counter = 0
    /\ backtrack_failure_counter = 0
    /\ heap = <<>>
    /\ stack = <<>>
    /\ queue = <<>>
    /\ target = 0
    /\ pc = "start"
    /\ retval = None
    /\ exc = "none"
    /\ initial_ok = "pending"
    /\ lastRevise = NoRevise

\* The state after the builder has run (add_variable for every name, then the
\* constraints) and before backtracking_search is called.
Init == (SmallGraph \/ ColouringGraph) /\ NotStarted

\* The same, for the colouring instances only.
MapInit == (MapGraph \/ ColouringGraph) /\ NotStarted

\* backtracking_search up to the call of inference: the deep copy of
\* self.domains and the queue of all arcs.
BacktrackingSearch ==
    /\ pc = "start"
    /\ heap' = <<domains>>
    /\ target' = 1
    /\ queue' = get_all_arcs
    /\ pc' = "inference"
    /\ UNCHANGED <<graph, backtrack_counter, backtrack_failure_counter, stack, retval,
                   exc, initial_ok, lastRevise>>

\* Where inference returns to: backtracking_search discards the result and
\* calls backtrack; the for-loop of backtrack calls backtrack on True and
\* goes on with the next value on False.
InferenceReturn(ok) ==
    /\ pc' = IF stack = <<>> \/ ok THEN "call" ELSE "loop"
    /\ initial_ok' = IF stack = <<>> THEN (IF ok THEN "true" ELSE "false") ELSE initial_ok

\* One iteration of the while-loop of inference in which revise looks up a
\* constraint that is not registered: self.constraints[i][j] raises KeyError.
InferenceKeyError ==
    /\ pc = "inference"
    /\ queue # <<>>
    /\ ~HasConstraint(Head(queue)[1], Head(queue)[2])
    /\ LooksUpConstraint(heap[target], Head(queue)[1], Head(queue)[2])
    /\ queue' = Tail(queue)
    /\ pc' = "raised"
    /\ exc' = "KeyError"
    /\ UNCHANGED <<graph, backtrack_counter, backtrack_failure_counter, heap, stack,
                   target, retval, initial_ok, lastRevise>>

\* One iteration of the while-loop of inference: pop an arc, revise it, and
\* either return False on an empty domain or append the neighbouring arcs.
InferenceStep ==
    /\ pc = "inference"
    /\ queue # <<>>
    /\ LET i == Head(queue)[1]
           j == Head(queue)[2]
       IN  /\ LooksUpConstraint(heap[target], i, j) => HasConstraint(i, j)
           /\ LET r == revise(heap[target], i, j)
              IN  /\ heap' = [heap EXCEPT ![target] = r.assignment]
                  /\ lastRevise' = [valid |-> TRUE, i |-> i, j |-> j, fn |-> ConstraintFn(i, j),
                                    di |-> heap[target][i], dj |-> heap[target][j],
                                    dom |-> r.assignment[i], revised |-> r.revised]
                  /\ IF r.revised /\ r.assignment[i] = <<>>
                     THEN /\ queue' = Tail(queue)
                          /\ InferenceReturn(FALSE)
                     ELSE /\ queue' = IF r.revised THEN Tail(queue) \o Requeue(i, j)
                                                   ELSE Tail(queue)
                          /\ UNCHANGED <<pc, initial_ok>>
    /\ UNCHANGED <<graph, backtrack_counter, backtrack_failure_counter, stack, target,
                   retval, exc>>

\* The while-loop of inference ends on an empty queue: return True.
InferenceDone ==
    /\ pc = "inference"
    /\ queue = <<>>
    /\ InferenceReturn(TRUE)
    /\ UNCHANGED <<graph, backtrack_counter, backtrack_failure_counter, heap, stack,
                   queue, target, retval, exc, lastRevise>>

\* backtrack(assignment) on a complete assignment: count the call, return it.
BacktrackComplete ==
    /\ pc = "call"
    /\ IsComplete(heap[target])
    /\ backtrack_counter' = CountInvocation(backtrack_counter)
    /\ retval' = target
    /\ pc' = "return"
    /\ UNCHANGED <<graph, backtrack_failure_counter, heap, stack, queue, target, exc,
                   initial_ok, lastRevise>>

\* backtrack(assignment) when no domain is longer than one but some domain is
\* empty: min() of an empty list raises ValueError.
BacktrackValueError ==
    /\ pc = "call"
    /\ ~IsComplete(heap[target])
    /\ UnassignedVars(heap[target]) = <<>>
    /\ backtrack_counter' = CountInvocation(backtrack_counter)
    /\ pc' = "raised"
    /\ exc' = "ValueError"
    /\ UNCHANGED <<graph, backtrack_failure_counter, heap, stack, queue, target, retval,
                   initial_ok, lastRevise>>

\* backtrack(assignment) up to its for-loop: count the call, select the variable.
BacktrackSelect ==
    /\ pc = "call"
    /\ ~IsComplete(heap[target])
    /\ UnassignedVars(heap[target]) # <<>>
    /\ backtrack_counter' = CountInvocation(backtrack_counter)
    /\ stack' = Append(stack, [ref |-> target, var |-> select_unassigned_variable(heap[target]),
                               idx |-> 1, entry |-> heap[target]])
    /\ pc' = "loop"
    /\ UNCHANGED <<graph, backtrack_failure_counter, heap, queue, target, retval, exc,
                   initial_ok, lastRevise>>

\* The assignments that are still referenced when the running backtrack call
\* rebinds new_assignment.
Live(f) == SubSeq(heap, 1, f.ref)

\* One iteration of the for-loop of backtrack up to the call of inference:
\* take the next value, deep-copy the assignment, collapse the variable.
BacktrackTryValue ==
    /\ pc = "loop"
    /\ LET f == stack[Len(stack)]
       IN  /\ f.idx <= Len(heap[f.ref][f.var])
           /\ LET value == heap[f.ref][f.var][f.idx]
                  c == DeepCopy(Live(f), f.ref)
              IN  /\ heap' = [c.heap EXCEPT ![c.ref] = Collapse(c.heap[c.ref], f.var, value)]
                  /\ target' = c.ref
           /\ stack' = [stack EXCEPT ![Len(stack)].idx = f.idx + 1]
           /\ queue' = get_all_neighboring_arcs(f.var)
    /\ pc' = "inference"
    /\ UNCHANGED <<graph, backtrack_counter, backtrack_failure_counter, retval, exc,
                   initial_ok, lastRevise>>

\* The for-loop of backtrack ran out of values: count the failure, return None.
BacktrackExhausted ==
    /\ pc = "loop"
    /\ LET f == stack[Len(stack)]
       IN  /\ f.idx > Len(heap[f.ref][f.var])
           /\ heap' = Live(f)
    /\ backtrack_failure_counter' = CountFailure(backtrack_failure_counter)
    /\ stack' = SubSeq(stack, 1, Len(stack) - 1)
    /\ retval' = None
    /\ pc' = "return"
    /\ UNCHANGED <<graph, backtrack_counter, queue, target, exc, initial_ok, lastRevise>>

\* The recursive call returned a solution: the caller returns it at once.
ReturnResult ==
    /\ pc = "return"
    /\ stack # <<>>
    /\ retval # None
    /\ stack' = SubSeq(stack, 1, Len(stack) - 1)
    /\ UNCHANGED <<graph, backtrack_counter, backtrack_failure_counter, heap, queue,
                   target, pc, retval, exc, initial_ok, lastRevise>>

\* The recursive call returned None: the caller goes on with its for-loop.
ReturnNone ==
    /\ pc = "return"
    /\ stack # <<>>
    /\ retval = None
    /\ pc' = "loop"
    /\ UNCHANGED <<graph, backtrack_counter, backtrack_failure_counter, heap, stack,
                   queue, target, retval, exc, initial_ok, lastRevise>>

\* The outermost backtrack call returned: backtracking_search returns its result.
SearchReturn ==
    /\ pc = "return"
    /\ stack = <<>>
    /\ pc' = "done"
    /\ UNCHANGED <<graph, backtrack_counter, backtrack_failure_counter, heap, stack,
                   queue, target, retval, exc, initial_ok, lastRevise>>

Next ==
    \/ BacktrackingSearch
    \/ InferenceKeyError
    \/ InferenceStep
    \/ InferenceDone
    \/ BacktrackComplete
    \/ BacktrackValueError
    \/ BacktrackSelect
    \/ BacktrackTryValue
    \/ BacktrackExhausted
    \/ ReturnResult
    \/ ReturnNone
    \/ SearchReturn

Spec == Init /\ [][Next]_vars

\* The program is sequential and runs to completion: every step that is
\* enabled is eventually taken.
FairSpec == MapInit /\ [][Next]_vars /\ WF_vars(Next)

-----------------------------------------------------------------------------
(* Vocabulary of the properties *)

Vars == Range(variables)

\* backtracking_search returned / ended in an exception
Returned == pc = "done"
Raised == pc = "raised"

\* The registered constraints i -> j
Arcs == {a \in Vars \X Vars : HasConstraint(a[1], a[2])}

\* Every variable decided, and every registered constraint satisfied by the
\* chosen values.
IsSolution(a) ==
    /\ \A v \in Vars : Len(a[v]) = 1
    /\ \A arc \in Arcs : Satisfies(ConstraintFn(arc[1], arc[2]), a[arc[1]][1], a[arc[2]][1])

\* The assignments of one value per variable, taken from the original
\* domains, that satisfy every registered constraint.
Solutions ==
    {s \in [Vars -> 1..MaxVal] :
        /\ \A v \in Vars : s[v] \in Range(domains[v])
        /\ \A arc \in Arcs : Satisfies(ConstraintFn(arc[1], arc[2]), s[arc[1]], s[arc[2]])}

\* Every value of i has a support in j, for every registered i -> j, and no
\* domain is empty.
ArcConsistent(a) ==
    /\ \A v \in Vars : a[v] # <<>>
    /\ \A arc \in Arcs : \A x \in Range(a[arc[1]]) :
           ~Unsupported(ConstraintFn(arc[1], arc[2]), x, a[arc[2]])

\* a's domains are sub-lists of b's
Shrunk(a, b) == \A v \in Vars : Range(a[v]) \subseteq Range(b[v]) /\ Len(a[v]) <= Len(b[v])

-----------------------------------------------------------------------------
\* C1: whenever backtracking_search returns an assignment, every domain of it
\* has length one and every registered constraint i -> j holds on the values
\* chosen for i and j.
C1_ReturnedAssignmentIsSolution ==
    (Returned /\ retval # None) => IsSolution(heap[retval])

\* C2: if the initial AC-3 pass of backtracking_search empties a domain, the
\* search returns None, and no exception surfaces.
C2_InitialFailureReturnsNone ==
    (initial_ok = "false" /\ (Returned \/ Raised)) => (Returned /\ retval = None)

\* C3: backtracking_search returns None only if no assignment of one value per
\* variable, taken from the original domains, satisfies all constraints.
C3_NoneOnlyIfUnsatisfiable ==
    (Returned /\ retval = None) => Solutions = {}

\* C3 happens: AC-3 found nothing wrong at first, and the search then failed
\* in more than one backtrack call.
C3_Witness ==
    /\ Returned /\ retval = None
    /\ initial_ok = "true"
    /\ backtrack_failure_counter > 1

\* C4: exploring a candidate value never changes the caller's assignment: the
\* assignment of every backtrack call that is in its for-loop is the one it
\* was entered with.
C4_BranchIsolation ==
    \A n \in 1..Len(stack) : heap[stack[n].ref] = stack[n].entry

\* C4 happens: a candidate failed, its copy was pruned by AC-3 in a variable
\* other than the selected one, and the caller is back in its for-loop.
C4_Witness ==
    /\ pc = "loop"
    /\ LET f == stack[Len(stack)]
       IN  /\ f.idx > 1
           /\ Len(heap) > f.ref
           /\ \E v \in Vars \ {f.var} : heap[f.ref + 1][v] # f.entry[v]

\* C5: a revise/inference step leaves the domains of the assignment it works
\* on sub-lists of what they were, the collapsed copy made by backtrack has
\* sub-lists of the caller's domains, and every assignment of the search has
\* sub-lists of the original domains.
C5_StepShrinks ==
    /\ pc = "inference" => Shrunk(heap'[target], heap[target])
    /\ (pc = "loop" /\ pc' = "inference") => Shrunk(heap'[target'], heap[stack[Len(stack)].ref])

C5_DomainMonotonicity ==
    /\ [](\A r \in 1..Len(heap) : Shrunk(heap[r], domains))
    /\ [][C5_StepShrinks]_vars

\* C5 happens: inside a branch, revise removed a value from the collapsed copy.
C5_Witness ==
    /\ pc = "inference"
    /\ stack # <<>>
    /\ lastRevise.valid /\ lastRevise.revised
    /\ \E v \in Vars \ {stack[Len(stack)].var} :
           Len(heap[target][v]) < Len(heap[stack[Len(stack)].ref][v])

\* The graph of C6: A, B, C, the same two-value palette for each, and
\* not-equal constraints in both directions on every pair.
Triangle ==
    /\ variables = <<"A", "B", "C">>
    /\ \E lo \in 1..(MaxVal - 1) : \A v \in Vars : domains[v] = Interval(lo, lo + 1)
    /\ \A i \in Vars : \A j \in Vars \ {i} : HasConstraint(i, j) /\ ConstraintFn(i, j) = "neq"

\* C6: on the triangle with two values the search terminates, returns None,
\* and the failure counter is greater than zero.
C6_TriangleUnsatisfiable ==
    Triangle ~> (Returned /\ retval = None /\ backtrack_failure_counter > 0)

C6_Witness ==
    Triangle /\ Returned /\ retval = None /\ backtrack_failure_counter > 0

\* C7: a step never decreases a counter, and it increments the failure counter
\* only from the for-loop of a backtrack call that has tried every value of
\* its variable, which then returns None.
C7_CounterStep ==
    /\ backtrack_counter' >= backtrack_counter
    /\ backtrack_failure_counter' >= backtrack_failure_counter
    /\ backtrack_failure_counter' # backtrack_failure_counter =>
           /\ backtrack_failure_counter' = backtrack_failure_counter + 1
           /\ pc = "loop"
           /\ LET f == stack[Len(stack)] IN f.idx = Len(f.entry[f.var]) + 1
           /\ pc' = "return" /\ retval' = None

\* C7: after a backtracking_search call, however it ended, the invocation
\* counter is >= 1 and >= the failure counter; the counters move as
\* C7_CounterStep says.
C7_SearchCounters ==
    /\ []((Returned \/ Raised) =>
            backtrack_counter >= 1 /\ backtrack_counter >= backtrack_failure_counter)
    /\ [][C7_CounterStep]_vars

\* C8: revise removes exactly the unsupported values of i's domain and returns
\* true exactly when it removed one.
C8_ReviseRemovesAllUnsupported ==
    lastRevise.valid =>
        /\ lastRevise.dom = SelectSeq(lastRevise.di,
                                      LAMBDA x : ~Unsupported(lastRevise.fn, x, lastRevise.dj))
        /\ lastRevise.revised <=> (lastRevise.dom # lastRevise.di)

\* C9: when the inference call seeded with all arcs returns true, the
\* assignment is arc-consistent.
C9_InitialPassArcConsistent ==
    (pc = "call" /\ stack = <<>> /\ initial_ok = "true") => ArcConsistent(heap[target])

\* C10: the variable a backtrack call selects has a domain longer than one,
\* no variable with a domain longer than one has a shorter domain, and none
\* with a domain of the same length was registered earlier.
C10_SelectsFirstMinimum ==
    \A n \in 1..Len(stack) :
        LET a == stack[n].entry
            v == stack[n].var
        IN  /\ Len(a[v]) > 1
            /\ \A w \in Vars : Len(a[w]) > 1 =>
                   /\ Len(a[w]) >= Len(a[v])
                   /\ Len(a[w]) = Len(a[v]) => IndexOf(variables, w) >= IndexOf(variables, v)

\* C10 happens: the first unassigned variable has a longer domain than the
\* two after it, which tie; the earlier of the two is selected.
C10_Witness ==
    \E n \in 1..Len(stack) :
        LET a == stack[n].entry
        IN  /\ Len(a[variables[1]]) > Len(a[variables[2]])
            /\ Len(a[variables[2]]) = Len(a[variables[3]])
            /\ Len(a[variables[2]]) > 1
            /\ stack[n].var = variables[2]

\* C11: every arc in the queue of inference, whether seeded by backtracking_search
\* or backtrack or re-enqueued by inference, has a registered constraint i -> j,
\* so revise never looks up a missing constraint (no KeyError), on every graph,
\* one-way constraints included.
C11_QueuedArcsAreRegistered ==
    /\ \A n \in 1..Len(queue) : HasConstraint(queue[n][1], queue[n][2])
    /\ exc # "KeyError"

====
